---------------------------- MODULE Spec2Model ----------------------------
(***************************************************************************)
(* A model of the Rememory server (src/server/app.py,                      *)
(* src/server/gemini_processor.py, src/server/config.py).                  *)
(*                                                                         *)
(* The session dictionary, the session lock, the socket event handlers     *)
(* (each running in its own handler thread), the background state updater *)
(* and the Gemini processor's context history are the state.  A handler    *)
(* thread or the updater takes one step per action; a step ends at each    *)
(* point where another thread can observe or change shared state (lock     *)
(* acquisition, release, an unlocked read, a file write, the model call).  *)
(***************************************************************************)
EXTENDS Integers, Sequences, FiniteSets, TLC

(***************************************************************************)
(* Bounds of the model.                                                    *)
(***************************************************************************)
NumHandlers == 2        \* handler threads that can run at the same time
MaxBodyLen == 4         \* longest base64 text of a payload, in characters
MaxHeaderLen == 1       \* longest data-URL header before the comma
MaxClock == 1           \* clock ticks explored between two wake-ups
MaxEvents == 2          \* events received in one run of the whole server
MaxGpsEvents == 3       \* gps_update events received after the preload
MaxCycles == 1          \* periodic cycles in one run of the whole server
MaxHangEvents == 1      \* events received in a run with the model call hanging
MaxCalls == 2           \* periodic cycles in a run of the summarizer
MaxFixes == 2           \* fixes held when a run of the summarizer starts

(***************************************************************************)
(* Program constants.                                                      *)
(***************************************************************************)
MAX_GPS_POINTS == 100        \* app.py:152-153 (config.py:31)
MAX_CONTEXT_HISTORY == 10    \* gemini_processor.py:68-69 (config.py:32)
TRAIL_LEN == 5               \* gemini_processor.py:109
RECENT_PHOTOS == 3           \* gemini_processor.py:119
TicksPerSecond == 2          \* clock ticks (microseconds) in one second, scaled
SLEEP_SECONDS == 180         \* app.py:55

Handlers == {<<"handler", i>> : i \in 1..NumHandlers}
UPDATER == <<"updater", 0>>  \* the background updater thread, as a lock holder
FREE == <<"free", 0>>        \* the lock is not held

None == "None"               \* Python's None, for a string-valued slot

(***************************************************************************)
(* Sequences.                                                              *)
(***************************************************************************)
Range(s) == {s[i] : i \in 1..Len(s)}

\* s[-n:]
LastN(s, n) == IF Len(s) <= n THEN s ELSE SubSeq(s, Len(s) - n + 1, Len(s))

StringsUpTo(S, n) == UNION {[1..k -> S] : k \in 0..n}

(***************************************************************************)
(* Characters of a payload string.  A character of the base64 alphabet is  *)
(* its 6-bit value; '=' and the characters outside the alphabet are the    *)
(* values from 64 up (binascii's table maps them to >= 64 too).            *)
(***************************************************************************)
PAD == 64                    \* '='
BANG == 65                   \* '!', a character outside the alphabet
COMMA == 66                  \* ',', outside the alphabet as well
AlphaSyms == {16, 61}        \* 'Q', '9'

(***************************************************************************)
(* base64.b64decode(s) with validate=False, as CPython's binascii runs it: *)
(* characters outside the alphabet are skipped, a pad run that completes a *)
(* quad ends the parse, and leftover characters of an unfinished quad are  *)
(* the only error.  The result is [ok, bytes]; ok = FALSE is binascii.Error*)
(***************************************************************************)
RECURSIVE a2b_base64(_, _, _, _, _, _)
a2b_base64(s, i, quad_pos, leftchar, pads, out) ==
    IF i > Len(s)
    THEN IF quad_pos # 0 THEN [ok |-> FALSE, bytes |-> <<>>]
                         ELSE [ok |-> TRUE, bytes |-> out]
    ELSE LET ch == s[i] IN
         IF ch = PAD
         THEN IF quad_pos >= 2 /\ quad_pos + pads + 1 >= 4
              THEN [ok |-> TRUE, bytes |-> out]
              ELSE a2b_base64(s, i + 1, quad_pos, leftchar,
                              IF quad_pos >= 2 THEN pads + 1 ELSE pads, out)
         ELSE IF ch >= 64
         THEN a2b_base64(s, i + 1, quad_pos, leftchar, pads, out)
         ELSE CASE quad_pos = 0 ->
                     a2b_base64(s, i + 1, 1, ch, 0, out)
                [] quad_pos = 1 ->
                     a2b_base64(s, i + 1, 2, ch % 16, 0,
                                Append(out, (leftchar * 4 + ch \div 16) % 256))
                [] quad_pos = 2 ->
                     a2b_base64(s, i + 1, 3, ch % 4, 0,
                                Append(out, (leftchar * 16 + ch \div 4) % 256))
                [] OTHER ->
                     a2b_base64(s, i + 1, 0, 0, 0,
                                Append(out, (leftchar * 64 + ch) % 256))

b64decode(s) == a2b_base64(s, 1, 0, 0, 0, <<>>)

(***************************************************************************)
(* image_data.split(',')[1]: the text between the first and the second     *)
(* comma (to the end when there is no second comma).                       *)
(***************************************************************************)
RECURSIVE FindComma(_, _)
FindComma(s, i) ==
    IF i > Len(s) THEN Len(s) + 1
    ELSE IF s[i] = COMMA THEN i ELSE FindComma(s, i + 1)

SplitSecond(s) ==
    LET a == FindComma(s, 1)
        b == FindComma(s, a + 1)
    IN  SubSeq(s, a + 1, b - 1)

\* a wrong prefix removal: keeps what stands before the comma
StripDataUrlHead(image_data) ==
    IF COMMA \in Range(image_data)
    THEN SubSeq(image_data, 1, FindComma(image_data, 1) - 1)
    ELSE image_data

\* app.py:199-201
StripDataUrl(image_data) ==
    IF COMMA \in Range(image_data) THEN SplitSecond(image_data) ELSE image_data

(***************************************************************************)
(* File names.  strftime with %f keeps the microsecond, without it the     *)
(* name is cut to the second.                                              *)
(***************************************************************************)
AudioFileName(t) == <<"audio", t>>
\* strftime('%Y%m%d_%H%M%S'): the second a clock value falls in
SecondOf(t) == t \div TicksPerSecond

\* a wrong file name: the microsecond kept, as in the audio file names
PhotoFileNameMicro(t) == <<"photo", t>>

PhotoFileName(t) == <<"photo", SecondOf(t)>>

(***************************************************************************)
(* State.                                                                  *)
(***************************************************************************)
VARIABLES
    gps_data,          \* current_session['gps_data']
    audio_chunks,      \* current_session['audio_chunks']
    photos,            \* current_session['photos']
    current_state,     \* current_session['current_state']
    last_update,       \* current_session['last_update']
    session_lock,      \* FREE, or the thread inside "with session_lock"
    pc,                \* where each handler thread is
    loc,               \* each handler thread's local variables
    upc,               \* where the background updater is
    uloc,              \* the background updater's local variables
    context_history,   \* gemini_processor.context_history
    now,               \* datetime.now(), in clock ticks
    files,             \* the files under data/audio and data/photos
    log_lines,         \* the lines of the state log
    broadcasts,        \* the state_update messages sent to all clients
    received,          \* every fix appended to gps_data, in order (history)
    nevents            \* events handed to handlers so far (history)

vars == <<gps_data, audio_chunks, photos, current_state, last_update,
          session_lock, pc, loc, upc, uloc, context_history, now, files,
          log_lines, broadcasts, received, nevents>>

session == <<gps_data, audio_chunks, photos, current_state, last_update>>
updater == <<upc, uloc, context_history, log_lines, broadcasts>>

INITIAL_STATE == "Initializing Rememory..."      \* app.py:41

\* the locals of a handler thread that has just been given an event
Fresh(kind) ==
    [kind |-> kind,        \* the event being handled
     entry |-> <<>>,       \* gps_entry / the metadata entry
     filename |-> <<>>,    \* audio_filename / photo_filename
     timestamp |-> 0,      \* timestamp
     bytes |-> <<>>,       \* audio_data / photo_bytes
     keys |-> {},          \* the keys of the payload (history)
     haskey |-> FALSE,     \* the payload carries the base64 text (history)
     text |-> <<>>,        \* that text, after the data-URL header (history)
     valid |-> FALSE,      \* that text is well-formed base64 (history)
     ref |-> <<>>,         \* the bytes a well-formed text encodes (history)
     wrote |-> "no",       \* what this event did to its file (history)
     appended |-> 0,       \* entries this event appended (history)
     caught |-> FALSE,     \* the handler's except clause ran
     replies |-> <<>>]     \* what was emitted to the requesting client

(***************************************************************************)
(* with session_lock: a handler thread enters its critical section.        *)
(***************************************************************************)
LockLabels == {"gps_lock", "audio_lock", "photo_lock", "request_lock",
               "status_lock"}

Inside(label) ==
    CASE label = "gps_lock" -> "gps_cs"
      [] label = "audio_lock" -> "audio_cs"
      [] label = "photo_lock" -> "photo_cs"
      [] label = "request_lock" -> "request_cs"
      [] OTHER -> "status_cs"

Acquire(h) ==
    /\ pc[h] \in LockLabels
    /\ session_lock = FREE
    /\ session_lock' = h
    /\ pc' = [pc EXCEPT ![h] = Inside(pc[h])]
    /\ UNCHANGED <<session, loc, updater, now, files, received, nevents>>

(***************************************************************************)
(* The clock advances.                                                     *)
(***************************************************************************)
\* ticks since the updater last woke up
Elapsed == now % (SLEEP_SECONDS * TicksPerSecond)

Tick ==
    /\ now' = now + 1
    /\ UNCHANGED <<session, session_lock, pc, loc, updater, files, received,
                   nevents>>

(***************************************************************************)
(* handle_gps_update (app.py:135-158).                                     *)
(***************************************************************************)
GpsFields == {"latitude", "longitude", "accuracy", "altitude", "heading", "speed"}

\* a wrong default: a missing field read as zero
GetOrZero(data, key) == IF key \in DOMAIN data THEN data[key] ELSE "0"

\* data.get(key)
Get(data, key) == IF key \in DOMAIN data THEN data[key] ELSE None

\* app.py:139-147
GpsEntry(data, t) ==
    [timestamp |-> t,
     latitude |-> Get(data, "latitude"),
     longitude |-> Get(data, "longitude"),
     accuracy |-> Get(data, "accuracy"),
     altitude |-> Get(data, "altitude"),
     heading |-> Get(data, "heading"),
     speed |-> Get(data, "speed")]

\* a wrong trimming: keeps the oldest fixes instead of the newest
TrimGpsOldest(s) ==
    IF Len(s) > MAX_GPS_POINTS THEN SubSeq(s, 1, MAX_GPS_POINTS) ELSE s

\* app.py:152-153
TrimGps(s) ==
    IF Len(s) > MAX_GPS_POINTS THEN LastN(s, MAX_GPS_POINTS) ELSE s

\* f"{x:.6f}" raises TypeError when x is None
FormatRaises(x) == x = None

\* the handler is called with the event's payload: app.py:139-147
GpsReceive(h, data) ==
    /\ pc[h] = "idle"
    /\ loc' = [loc EXCEPT ![h] = [Fresh("gps") EXCEPT !.entry = GpsEntry(data, now),
                                                     !.keys = DOMAIN data]]
    /\ pc' = [pc EXCEPT ![h] = "gps_lock"]
    /\ nevents' = nevents + 1
    /\ UNCHANGED <<session, session_lock, updater, now, files, received>>

\* app.py:150-158: append, trim, release the lock, print (which raises into
\* the except clause when a coordinate is None)
GpsAppend(h) ==
    /\ pc[h] = "gps_cs"
    /\ gps_data' = TrimGps(Append(gps_data, loc[h].entry))
    /\ received' = Append(received, loc[h].entry)
    /\ session_lock' = FREE
    /\ loc' = [loc EXCEPT ![h].appended = 1,
                          ![h].caught = FormatRaises(loc[h].entry.latitude)
                                        \/ FormatRaises(loc[h].entry.longitude)]
    /\ pc' = [pc EXCEPT ![h] = "idle"]
    /\ UNCHANGED <<audio_chunks, photos, current_state, last_update, updater,
                   now, files, nevents>>

(***************************************************************************)
(* What the claims call well-formed base64 (RFC 4648): whole quads of      *)
(* alphabet characters, the last quad padded with one or two '='; and the  *)
(* bytes such a text encodes, three per quad of 24 bits.  These state the  *)
(* claims; the handlers below do not use them.                             *)
(***************************************************************************)
WellFormed(s) ==
    /\ Len(s) % 4 = 0
    /\ \A i \in 1..Len(s) :
          \/ s[i] < 64
          \/ /\ s[i] = PAD
             /\ i >= Len(s) - 1
             /\ s[Len(s)] = PAD

RECURSIVE Encoded(_)
Encoded(s) ==
    IF Len(s) < 4 THEN <<>>
    ELSE LET v(i) == IF s[i] = PAD THEN 0 ELSE s[i]
             n == v(1) * 262144 + v(2) * 4096 + v(3) * 64 + v(4)
             three == <<n \div 65536, (n \div 256) % 256, n % 256>>
             k == IF s[3] = PAD THEN 1 ELSE IF s[4] = PAD THEN 2 ELSE 3
         IN  SubSeq(three, 1, k) \o Encoded(SubSeq(s, 5, Len(s)))

\* the base64 text of a photo payload: what follows the data-URL header
ImageText(image) ==
    IF COMMA \in Range(image)
    THEN SubSeq(image, FindComma(image, 1) + 1, Len(image))
    ELSE image

(***************************************************************************)
(* Writing a file (with open(path, 'wb') as f: f.write(data)).  open can   *)
(* fail and leave the directory as it was; once open has succeeded the     *)
(* file exists, emptied, and a write or close that fails leaves it with    *)
(* some of the bytes, not all.                                             *)
(***************************************************************************)
WriteOutcomes == {"ok", "open_fails", "write_fails"}

Partials(bytes) == {SubSeq(bytes, 1, k) : k \in 0..(Len(bytes) - 1)} \cup {<<>>}

Store(fs, name, bytes) == (name :> bytes) @@ fs

(***************************************************************************)
(* handle_audio_chunk (app.py:161-186).                                    *)
(***************************************************************************)
\* app.py:177-181
AudioMeta(l) ==
    [timestamp |-> l.timestamp, filename |-> l.filename, size |-> Len(l.bytes)]

\* app.py:165-170: name the file, decode data['audio']; a missing key or a
\* decode error goes to the except clause and the handler returns
AudioReceive(h, data) ==
    /\ pc[h] = "idle"
    /\ LET text == IF "audio" \in DOMAIN data THEN data.audio ELSE <<BANG>>
           l == [Fresh("audio") EXCEPT !.timestamp = now,
                                       !.filename = AudioFileName(now),
                                       !.haskey = "audio" \in DOMAIN data,
                                       !.text = text,
                                       !.valid = WellFormed(text),
                                       !.ref = IF WellFormed(text)
                                               THEN Encoded(text) ELSE <<>>]
           d == IF "audio" \in DOMAIN data THEN b64decode(data.audio)
                                          ELSE [ok |-> FALSE, bytes |-> <<>>]
       IN  IF d.ok
           THEN /\ loc' = [loc EXCEPT ![h] = [l EXCEPT !.bytes = d.bytes]]
                /\ pc' = [pc EXCEPT ![h] = "audio_write"]
           ELSE /\ loc' = [loc EXCEPT ![h] = [l EXCEPT !.caught = TRUE]]
                /\ pc' = pc
    /\ nevents' = nevents + 1
    /\ UNCHANGED <<session, session_lock, updater, now, files, received>>

\* app.py:173-174
AudioWrite(h, outcome) ==
    /\ pc[h] = "audio_write"
    /\ \/ /\ outcome = "ok"
          /\ files' = Store(files, loc[h].filename, loc[h].bytes)
          /\ loc' = [loc EXCEPT ![h].wrote = "all"]
          /\ pc' = [pc EXCEPT ![h] = "audio_lock"]
       \/ /\ outcome = "open_fails"
          /\ files' = files
          /\ loc' = [loc EXCEPT ![h].caught = TRUE]
          /\ pc' = [pc EXCEPT ![h] = "idle"]
       \/ /\ outcome = "write_fails"
          /\ \E part \in Partials(loc[h].bytes) :
                files' = Store(files, loc[h].filename, part)
          /\ loc' = [loc EXCEPT ![h].caught = TRUE, ![h].wrote = "part"]
          /\ pc' = [pc EXCEPT ![h] = "idle"]
    /\ UNCHANGED <<session, session_lock, updater, now, received, nevents>>

\* app.py:176-183
AudioAppend(h) ==
    /\ pc[h] = "audio_cs"
    /\ audio_chunks' = Append(audio_chunks, AudioMeta(loc[h]))
    /\ session_lock' = FREE
    /\ loc' = [loc EXCEPT ![h].appended = 1]
    /\ pc' = [pc EXCEPT ![h] = "idle"]
    /\ UNCHANGED <<gps_data, photos, current_state, last_update, updater, now,
                   files, received, nevents>>

(***************************************************************************)
(* handle_photo_capture (app.py:189-225).                                  *)
(***************************************************************************)
PhotoPath(filename) == <<"PHOTO_DIR", filename>>      \* app.py:195

\* app.py:209-214
PhotoMeta(l) ==
    [timestamp |-> l.timestamp, filename |-> l.filename,
     path |-> PhotoPath(l.filename), size |-> Len(l.bytes)]

PhotoSaved(l) ==                                       \* app.py:221
    [event |-> "photo_saved", filename |-> l.filename, timestamp |-> l.timestamp]

PhotoError == [event |-> "photo_error"]                \* app.py:225

\* app.py:199-203
PhotoDecode(data) ==
    IF "image" \in DOMAIN data THEN b64decode(StripDataUrl(data.image))
                               ELSE [ok |-> FALSE, bytes |-> <<>>]

\* app.py:193-203, and 223-225 when data['image'] is missing or does not decode
PhotoReceive(h, data) ==
    /\ pc[h] = "idle"
    /\ LET text == IF "image" \in DOMAIN data THEN ImageText(data.image)
                                              ELSE <<BANG>>
           l == [Fresh("photo") EXCEPT !.timestamp = now,
                                       !.filename = PhotoFileName(now),
                                       !.haskey = "image" \in DOMAIN data,
                                       !.text = text,
                                       !.valid = WellFormed(text),
                                       !.ref = IF WellFormed(text)
                                               THEN Encoded(text) ELSE <<>>]
           d == PhotoDecode(data)
       IN  IF d.ok
           THEN /\ loc' = [loc EXCEPT ![h] = [l EXCEPT !.bytes = d.bytes]]
                /\ pc' = [pc EXCEPT ![h] = "photo_write"]
           ELSE /\ loc' = [loc EXCEPT ![h] = [l EXCEPT !.caught = TRUE,
                                                       !.replies = <<PhotoError>>]]
                /\ pc' = pc
    /\ nevents' = nevents + 1
    /\ UNCHANGED <<session, session_lock, updater, now, files, received>>

\* app.py:206-207, and 223-225 when the write fails
PhotoWrite(h, outcome) ==
    /\ pc[h] = "photo_write"
    /\ \/ /\ outcome = "ok"
          /\ files' = Store(files, loc[h].filename, loc[h].bytes)
          /\ loc' = [loc EXCEPT ![h].wrote = "all"]
          /\ pc' = [pc EXCEPT ![h] = "photo_lock"]
       \/ /\ outcome = "open_fails"
          /\ files' = files
          /\ loc' = [loc EXCEPT ![h].caught = TRUE,
                                ![h].replies = Append(@, PhotoError)]
          /\ pc' = [pc EXCEPT ![h] = "idle"]
       \/ /\ outcome = "write_fails"
          /\ \E part \in Partials(loc[h].bytes) :
                files' = Store(files, loc[h].filename, part)
          /\ loc' = [loc EXCEPT ![h].caught = TRUE, ![h].wrote = "part",
                                ![h].replies = Append(@, PhotoError)]
          /\ pc' = [pc EXCEPT ![h] = "idle"]
    /\ UNCHANGED <<session, session_lock, updater, now, received, nevents>>

\* app.py:216-221
PhotoAppend(h) ==
    /\ pc[h] = "photo_cs"
    /\ photos' = Append(photos, PhotoMeta(loc[h]))
    /\ session_lock' = FREE
    /\ loc' = [loc EXCEPT ![h].appended = 1,
                          ![h].replies = Append(@, PhotoSaved(loc[h]))]
    /\ pc' = [pc EXCEPT ![h] = "idle"]
    /\ UNCHANGED <<gps_data, audio_chunks, current_state, last_update, updater,
                   now, files, received, nevents>>

(***************************************************************************)
(* handle_state_request (app.py:228-235), status (app.py:104-115) and      *)
(* handle_connect (app.py:118-126).                                        *)
(***************************************************************************)
RequestReceive(h) ==
    /\ pc[h] = "idle"
    /\ loc' = [loc EXCEPT ![h] = Fresh("request")]
    /\ pc' = [pc EXCEPT ![h] = "request_lock"]
    /\ nevents' = nevents + 1
    /\ UNCHANGED <<session, session_lock, updater, now, files, received>>

\* a wrong reply: stamped with the time of the request
RequestEmitNow(h) ==
    /\ pc[h] = "request_cs"
    /\ loc' = [loc EXCEPT ![h].replies =
                  <<[event |-> "state_update", state |-> current_state,
                     timestamp |-> now]>>]
    /\ session_lock' = FREE
    /\ pc' = [pc EXCEPT ![h] = "idle"]
    /\ UNCHANGED <<session, updater, now, files, received, nevents>>

\* app.py:231-235
RequestEmit(h) ==
    /\ pc[h] = "request_cs"
    /\ loc' = [loc EXCEPT ![h].replies =
                  <<[event |-> "state_update", state |-> current_state,
                     timestamp |-> last_update]>>]
    /\ session_lock' = FREE
    /\ pc' = [pc EXCEPT ![h] = "idle"]
    /\ UNCHANGED <<session, updater, now, files, received, nevents>>

StatusReceive(h) ==
    /\ pc[h] = "idle"
    /\ loc' = [loc EXCEPT ![h] = Fresh("status")]
    /\ pc' = [pc EXCEPT ![h] = "status_lock"]
    /\ nevents' = nevents + 1
    /\ UNCHANGED <<session, session_lock, updater, now, files, received>>

\* app.py:107-115
StatusReply(h) ==
    /\ pc[h] = "status_cs"
    /\ loc' = [loc EXCEPT ![h].replies =
                  <<[event |-> "status", status |-> "running",
                     state |-> current_state, timestamp |-> last_update,
                     gps_points |-> Len(gps_data), photos |-> Len(photos),
                     audio_chunks |-> Len(audio_chunks)]>>]
    /\ session_lock' = FREE
    /\ pc' = [pc EXCEPT ![h] = "idle"]
    /\ UNCHANGED <<session, updater, now, files, received, nevents>>

\* app.py:121
ConnectReceive(h) ==
    /\ pc[h] = "idle"
    /\ loc' = [loc EXCEPT ![h] = Fresh("connect")]
    /\ pc' = [pc EXCEPT ![h] = "connect_state"]
    /\ nevents' = nevents + 1
    /\ UNCHANGED <<session, session_lock, updater, now, files, received>>

\* app.py:124: current_session['current_state'] is read, the lock not taken
ConnectReadState(h) ==
    /\ pc[h] = "connect_state"
    /\ loc' = [loc EXCEPT ![h].entry = [state |-> current_state]]
    /\ pc' = [pc EXCEPT ![h] = "connect_time"]
    /\ UNCHANGED <<session, session_lock, updater, now, files, received, nevents>>

\* app.py:122-126: current_session['last_update'] is read, and the message sent
ConnectEmit(h) ==
    /\ pc[h] = "connect_time"
    /\ loc' = [loc EXCEPT ![h].replies =
                  <<[event |-> "connected", state |-> loc[h].entry.state,
                     timestamp |-> last_update]>>]
    /\ pc' = [pc EXCEPT ![h] = "idle"]
    /\ UNCHANGED <<session, session_lock, updater, now, files, received, nevents>>

(***************************************************************************)
(* GeminiProcessor (gemini_processor.py).  A prompt is the list of its     *)
(* parts (prompt_parts), each part a tuple naming the line and the values  *)
(* formatted into it.                                                      *)
(***************************************************************************)
\* gemini_processor.py:110-112: one line of the movement trail
TrailLine(gps) == <<"trail", gps.latitude, gps.longitude, gps.timestamp>>

\* gemini_processor.py:111 raises TypeError on a None coordinate
TrailRaises(gps_list) ==
    /\ Len(gps_list) > 1
    /\ \E i \in 1..Len(LastN(gps_list, TRAIL_LEN)) :
          \/ FormatRaises(LastN(gps_list, TRAIL_LEN)[i].latitude)
          \/ FormatRaises(LastN(gps_list, TRAIL_LEN)[i].longitude)

\* gemini_processor.py:98-112
LocationParts(gps_list) ==
    IF gps_list = <<>> THEN <<>>
    ELSE LET latest_gps == gps_list[Len(gps_list)]
             trail == LastN(gps_list, TRAIL_LEN)
         IN  << <<"--- CURRENT LOCATION ---">>,
                <<"Latitude", latest_gps.latitude>>,
                <<"Longitude", latest_gps.longitude>>,
                <<"Time", latest_gps.timestamp>> >>
             \o (IF Len(gps_list) > 1
                 THEN << <<"Recent locations", Len(gps_list)>> >>
                      \o [i \in 1..Len(trail) |-> TrailLine(trail[i])]
                 ELSE <<>>)

\* a wrong selection: the oldest photos listed instead of the most recent
PhotoPartsOldest(photo_list) ==
    IF photo_list = <<>> THEN <<>>
    ELSE LET oldest == SubSeq(photo_list, 1,
                              IF Len(photo_list) < RECENT_PHOTOS
                              THEN Len(photo_list) ELSE RECENT_PHOTOS)
         IN  << <<"--- PHOTOS CAPTURED ---">>,
                <<"Number of photos taken", Len(photo_list)>>,
                <<"Most recent photos:">> >>
             \o [i \in 1..Len(oldest) |->
                    <<"photo", oldest[i].filename, oldest[i].timestamp>>]
             \o << <<"Note: Photo analysis will be added">> >>

\* gemini_processor.py:115-124
PhotoParts(photo_list) ==
    IF photo_list = <<>> THEN <<>>
    ELSE LET recent == LastN(photo_list, RECENT_PHOTOS)
         IN  << <<"--- PHOTOS CAPTURED ---">>,
                <<"Number of photos taken", Len(photo_list)>>,
                <<"Most recent photos:">> >>
             \o [i \in 1..Len(recent) |->
                    <<"photo", recent[i].filename, recent[i].timestamp>>]
             \o << <<"Note: Photo analysis will be added">> >>

\* gemini_processor.py:127-132
AudioParts(count) ==
    IF count = 0 THEN <<>>
    ELSE << <<"--- AUDIO DATA ---">>,
            <<"Audio chunks captured", count>>,
            <<"Note: Audio transcription will be added">> >>

\* gemini_processor.py:135-137
HistoryParts(history) ==
    IF history = <<>> THEN <<>>
    ELSE << <<"--- RECENT HISTORY ---">>,
            <<"Previous state", history[Len(history)].response>> >>

\* gemini_processor.py:78-147; raises |-> TRUE is the TypeError of line 111
BuildStatePrompt(data, history) ==
    [raises |-> TrailRaises(data.gps_data),
     parts |-> << <<"PREAMBLE">> >>
               \o LocationParts(data.gps_data)
               \o PhotoParts(data.photos)
               \o AudioParts(data.audio_chunks)
               \o HistoryParts(history)
               \o << <<"--- YOUR TASK ---">> >>]

\* prompt[:200] + '...': the preamble alone is longer than 200 characters, so
\* the stored text is the same for every prompt
TruncatedPrompt(parts) == <<"PREAMBLE[:200]", "...">>

(***************************************************************************)
(* generate_state (gemini_processor.py:39-76).  The backend either answers *)
(* with a text, raises from generate_content, or answers with a response   *)
(* whose .text raises (an empty or blocked response).                      *)
(***************************************************************************)
ModelTexts == {"You are at home.", "You are at the park."}

BackendOutcomes ==
    {[kind |-> "ok", text |-> t] : t \in ModelTexts}
        \cup {[kind |-> "error", text |-> ""], [kind |-> "empty", text |-> ""]}

\* f"Unable to generate state: {str(e)}"
ErrorText(e) ==
    CASE e = "format" ->
           "Unable to generate state: unsupported format string passed to NoneType.__format__"
      [] e = "error" -> "Unable to generate state: backend error"
      [] OTHER -> "Unable to generate state: empty response"

\* an exception that is not caught and reaches the caller
Reraise(e, history) ==
    [raised |-> TRUE, text |-> "", calls |-> 0, history |-> history,
     prompt |-> <<>>]

\* gemini_processor.py:73-76
OnException(e, history) ==
    [raised |-> FALSE, text |-> ErrorText(e),
     calls |-> IF e = "format" THEN 0 ELSE 1, history |-> history,
     prompt |-> <<>>]

\* a wrong cap: the newest entry is dropped instead of the oldest
TrimHistoryOldest(h) ==
    IF Len(h) > MAX_CONTEXT_HISTORY THEN SubSeq(h, 1, MAX_CONTEXT_HISTORY) ELSE h

\* gemini_processor.py:68-69
TrimHistory(h) ==
    IF Len(h) > MAX_CONTEXT_HISTORY THEN LastN(h, MAX_CONTEXT_HISTORY) ELSE h

\* gemini_processor.py:52-76: the returned text, the exception that escaped (never),
\* the number of model calls made and the context history afterwards
GenerateState(data, history, outcome, t) ==
    LET prompt == BuildStatePrompt(data, history)
    IN  IF prompt.raises THEN OnException("format", history)
        ELSE IF outcome.kind # "ok"
        THEN [OnException(outcome.kind, history) EXCEPT !.prompt = prompt.parts]
        ELSE [raised |-> FALSE, text |-> outcome.text, calls |-> 1,
              prompt |-> prompt.parts,
              history |-> TrimHistory(Append(history,
                              [timestamp |-> t,
                               prompt |-> TruncatedPrompt(prompt.parts),
                               response |-> outcome.text]))]

(***************************************************************************)
(* background_state_updater (app.py:49-95).                                *)
(***************************************************************************)
ULocInit ==
    [data_snapshot |-> [gps_data |-> <<>>, photos |-> <<>>, audio_chunks |-> 0],
     new_state |-> "",
     cycles |-> 0,         \* cycles started (history)
     pre_state |-> INITIAL_STATE,  \* current_state when the cycle started (history)
     pre_update |-> 0,     \* last_update when the cycle started (history)
     failed |-> FALSE,     \* the cycle's model call failed (history)
     raised |-> FALSE,     \* generate_state raised into the cycle (history)
     wrote |-> FALSE,      \* the cycle overwrote current_state (history)
     logged |-> FALSE,     \* the cycle wrote its log line (history)
     sent |-> FALSE,       \* the cycle broadcast state_update (history)
     calls |-> 0,          \* model calls made by the cycle (history)
     prompt |-> <<>>,      \* the prompt_parts the cycle's call built (history)
     outcome |-> [kind |-> "none", text |-> ""],
                           \* what the backend does in the cycle (history)
     answered |-> <<>>,    \* the answer of every successful call (history)
     held |-> <<[state |-> INITIAL_STATE, timestamp |-> 0]>>]
                           \* every (current_state, last_update) held (history)

\* app.py:54-55: the sleep ends, 180 seconds later, and a cycle starts
UWake ==
    /\ upc = "sleep"
    /\ upc' = "snap_lock"
    /\ now' = now + SLEEP_SECONDS * TicksPerSecond
    /\ uloc' = [uloc EXCEPT !.cycles = @ + 1,
                            !.pre_state = current_state,
                            !.pre_update = last_update,
                            !.failed = FALSE, !.raised = FALSE, !.wrote = FALSE,
                            !.logged = FALSE, !.sent = FALSE,
                            !.calls = 0, !.prompt = <<>>,
                            !.outcome = [kind |-> "none", text |-> ""]]
    /\ UNCHANGED <<session, session_lock, pc, loc, context_history, files,
                   log_lines, broadcasts, received, nevents>>

\* app.py:57 and app.py:69: with session_lock
UAcquire ==
    /\ upc \in {"snap_lock", "write_lock"}
    /\ session_lock = FREE
    /\ session_lock' = UPDATER
    /\ upc' = IF upc = "snap_lock" THEN "snap_cs" ELSE "write_cs"
    /\ UNCHANGED <<session, pc, loc, uloc, context_history, now, files,
                   log_lines, broadcasts, received, nevents>>

\* the lock is kept while generate_state runs
KeepLock == UPDATER

\* app.py:63: leaving the with block releases the lock before generate_state
AfterSnapshot == FREE

\* app.py:58-63
USnapshot ==
    /\ upc = "snap_cs"
    /\ uloc' = [uloc EXCEPT !.data_snapshot =
                  [gps_data |-> gps_data, photos |-> photos,
                   audio_chunks |-> Len(audio_chunks)]]
    /\ session_lock' = AfterSnapshot
    /\ upc' = "call"
    /\ UNCHANGED <<session, pc, loc, context_history, now, files, log_lines,
                   broadcasts, received, nevents>>

\* the exception leaves the loop and the thread ends
LoopExits == "exited"

\* app.py:94-95 inside the while loop of app.py:54: after the except clause the
\* loop sleeps again
AfterExcept == "sleep"

\* app.py:67: generate_state returns (or raises into the except clause of
\* app.py:94, after which the loop sleeps again)
UGenerate(outcome) ==
    /\ upc = "call"
    /\ LET r == GenerateState(uloc.data_snapshot, context_history, outcome, now)
           ok == outcome.kind = "ok" /\ ~TrailRaises(uloc.data_snapshot.gps_data)
       IN  /\ context_history' = r.history
           /\ uloc' = [uloc EXCEPT
                  !.new_state = IF r.raised THEN @ ELSE r.text,
                  !.failed = ~ok,
                  !.raised = r.raised,
                  !.calls = r.calls,
                  !.prompt = r.prompt,
                  !.outcome = IF r.calls = 0 THEN @ ELSE outcome,
                  !.answered = IF ok
                               THEN Append(@, [timestamp |-> now,
                                               response |-> outcome.text])
                               ELSE @]
           /\ upc' = IF r.raised THEN AfterExcept ELSE "write_lock"
    /\ UNCHANGED <<session, session_lock, pc, loc, now, files, log_lines,
                   broadcasts, received, nevents>>

\* a wrong write-back: the snapshot put back with the new state, which loses
\* what was received while the model was called
UWriteBack ==
    /\ upc = "write_cs"
    /\ current_state' = uloc.new_state
    /\ last_update' = now
    /\ gps_data' = uloc.data_snapshot.gps_data
    /\ photos' = uloc.data_snapshot.photos
    /\ session_lock' = FREE
    /\ uloc' = [uloc EXCEPT !.wrote = TRUE,
                            !.held = Append(@, [state |-> uloc.new_state,
                                                timestamp |-> now])]
    /\ upc' = "log"
    /\ UNCHANGED <<audio_chunks, pc, loc, context_history, now, files, log_lines,
                   broadcasts, received, nevents>>

\* app.py:69-71
UWrite ==
    /\ upc = "write_cs"
    /\ current_state' = uloc.new_state
    /\ last_update' = now
    /\ session_lock' = FREE
    /\ uloc' = [uloc EXCEPT !.wrote = TRUE,
                            !.held = Append(@, [state |-> uloc.new_state,
                                                timestamp |-> now])]
    /\ upc' = "log"
    /\ UNCHANGED <<gps_data, audio_chunks, photos, pc, loc, context_history, now,
                   files, log_lines, broadcasts, received, nevents>>

\* app.py:74-84; a log file that cannot be opened or written raises
ULog(outcome) ==
    /\ upc = "log"
    /\ IF outcome = "ok"
       THEN /\ log_lines' = Append(log_lines,
                   [timestamp |-> now, state |-> uloc.new_state,
                    gps_count |-> Len(uloc.data_snapshot.gps_data),
                    photo_count |-> Len(uloc.data_snapshot.photos),
                    audio_chunks |-> uloc.data_snapshot.audio_chunks])
            /\ uloc' = [uloc EXCEPT !.logged = TRUE]
            /\ upc' = "emit"
       ELSE /\ UNCHANGED <<log_lines, uloc>>
            /\ upc' = AfterExcept
    /\ UNCHANGED <<session, session_lock, pc, loc, context_history, now, files,
                   broadcasts, received, nevents>>

\* app.py:87-92; current_session['last_update'] is read, the lock not taken
UBroadcast(outcome) ==
    /\ upc = "emit"
    /\ IF outcome = "ok"
       THEN /\ broadcasts' = Append(broadcasts,
                   [state |-> uloc.new_state, timestamp |-> last_update])
            /\ uloc' = [uloc EXCEPT !.sent = TRUE]
            /\ upc' = "sleep"
       ELSE /\ UNCHANGED <<broadcasts, uloc>>
            /\ upc' = AfterExcept
    /\ UNCHANGED <<session, session_lock, pc, loc, context_history, now, files,
                   log_lines, received, nevents>>

IoOutcomes == {"ok", "fails"}

(***************************************************************************)
(* The state after construction (app.py:37-47, gemini_processor.py:37).    *)
(***************************************************************************)
Init ==
    /\ gps_data = <<>>
    /\ audio_chunks = <<>>
    /\ photos = <<>>
    /\ current_state = INITIAL_STATE
    /\ last_update = 0
    /\ session_lock = FREE
    /\ pc = [h \in Handlers |-> "idle"]
    /\ loc = [h \in Handlers |-> Fresh("none")]
    /\ upc = "sleep"
    /\ uloc = ULocInit
    /\ context_history = <<>>
    /\ now = 0
    /\ files = <<>>
    /\ log_lines = <<>>
    /\ broadcasts = <<>>
    /\ received = <<>>
    /\ nevents = 0

(***************************************************************************)
(* The GPS path alone.  A run starts from the session as it is after       *)
(* `pre` gps_update events that did not overlap (one per clock tick before *)
(* time 0), so that a few further events reach the limit of 100 fixes.     *)
(***************************************************************************)
GpsCoords == {"37.7749"}
GpsDataSmall == UNION {[D -> GpsCoords] : D \in {{}, {"latitude", "longitude"}}}

Preloads == {0, MAX_GPS_POINTS - 1}

PreloadedGps(pre) ==
    [i \in 1..pre |->
        GpsEntry([f \in {"latitude", "longitude"} |-> "37.7749"], i - pre - 1)]

InitGps ==
    \E pre \in Preloads :
        /\ gps_data = PreloadedGps(pre)
        /\ received = PreloadedGps(pre)
        /\ audio_chunks = <<>>
        /\ photos = <<>>
        /\ current_state = INITIAL_STATE
        /\ last_update = 0
        /\ session_lock = FREE
        /\ pc = [h \in Handlers |-> "idle"]
        /\ loc = [h \in Handlers |-> Fresh("none")]
        /\ upc = "sleep"
        /\ uloc = ULocInit
        /\ context_history = <<>>
        /\ now = 0
        /\ files = <<>>
        /\ log_lines = <<>>
        /\ broadcasts = <<>>
        /\ nevents = 0

NextGps ==
    \/ \E h \in Handlers, data \in GpsDataSmall :
          nevents < MaxGpsEvents /\ GpsReceive(h, data)
    \/ \E h \in Handlers : Acquire(h)
    \/ \E h \in Handlers : GpsAppend(h)
    \/ Elapsed < MaxClock /\ Tick

SpecGps == InitGps /\ [][NextGps]_vars

Bodies == StringsUpTo(AlphaSyms \cup {PAD, BANG}, MaxBodyLen)
Headers == StringsUpTo({BANG, COMMA}, MaxHeaderLen)
Images == Bodies \cup {hd \o <<COMMA>> \o b : hd \in Headers, b \in Bodies}
NoKey == [other |-> <<>>]

AudioPayloads == {[audio |-> b] : b \in Bodies} \cup {NoKey}
PhotoPayloads == {[image |-> i] : i \in Images} \cup {NoKey}

NextDecode ==
    \/ /\ nevents = 0
       /\ \E h \in Handlers, data \in AudioPayloads : AudioReceive(h, data)
    \/ /\ nevents = 0
       /\ \E h \in Handlers, data \in PhotoPayloads : PhotoReceive(h, data)
    \/ \E h \in Handlers, outcome \in WriteOutcomes : AudioWrite(h, outcome)
    \/ \E h \in Handlers, outcome \in WriteOutcomes : PhotoWrite(h, outcome)
    \/ \E h \in Handlers : Acquire(h)
    \/ \E h \in Handlers : AudioAppend(h)
    \/ \E h \in Handlers : PhotoAppend(h)
    \/ Elapsed < MaxClock /\ Tick

SpecDecode == Init /\ [][NextDecode]_vars

Media(h) == loc[h].kind \in {"audio", "photo"}
Index(h) == IF loc[h].kind = "audio" THEN audio_chunks ELSE photos
Returned(h) == pc[h] = "idle" /\ loc[h].kind # "none"

(***************************************************************************)
(* C3 as claimed.  An audio_chunk or photo_capture event whose base64 text *)
(* is not well-formed creates or writes no file and appends no metadata    *)
(* entry (the handler returning normally is how every path of it ends).    *)
(***************************************************************************)
C3_MalformedWritesNothing ==
    \A h \in Handlers :
        (Media(h) /\ loc[h].haskey /\ ~loc[h].valid) =>
            /\ loc[h].wrote = "no"
            /\ loc[h].appended = 0
            /\ loc[h].filename \notin DOMAIN files
            /\ audio_chunks = <<>> /\ photos = <<>>

(***************************************************************************)
(* C4.  An audio_chunk or photo_capture event whose base64 text is         *)
(* well-formed and whose file write succeeds leaves the file it names      *)
(* holding exactly the bytes the text encodes, and has, when its handler   *)
(* returns, appended exactly one entry to its index, carrying that file    *)
(* name and the number of those bytes.                                     *)
(***************************************************************************)
C4_ValidPayloadSaved ==
    \A h \in Handlers :
        (Media(h) /\ loc[h].valid /\ loc[h].wrote = "all") =>
            /\ loc[h].filename \in DOMAIN files
            /\ files[loc[h].filename] = loc[h].ref
            /\ Returned(h) =>
                  /\ loc[h].appended = 1
                  /\ Len(Index(h)) = 1
                  /\ Index(h)[1].filename = loc[h].filename
                  /\ Index(h)[1].size = Len(loc[h].ref)
                  /\ Index(h)[1].timestamp = loc[h].timestamp
                  /\ Len(audio_chunks) + Len(photos) = 1

\* a photo behind a data-URL header and an audio chunk, each of three bytes,
\* saved and indexed
C4_Witness ==
    \E h \in Handlers :
        /\ Returned(h) /\ Media(h) /\ loc[h].valid /\ loc[h].wrote = "all"
        /\ Len(loc[h].ref) = 3
        /\ loc[h].appended = 1

(***************************************************************************)
(* C5 as claimed.  A photo_capture event sends exactly one reply; with     *)
(* photo_error no photo file has been written and no entry appended by     *)
(* the event, with photo_saved both have happened.                         *)
(***************************************************************************)
C5_PhotoReplyMatchesEffect ==
    \A h \in Handlers :
        (Returned(h) /\ loc[h].kind = "photo") =>
            /\ Len(loc[h].replies) = 1
            /\ loc[h].replies[1].event = "photo_error" =>
                  /\ loc[h].wrote = "no"
                  /\ loc[h].appended = 0
            /\ loc[h].replies[1].event = "photo_saved" =>
                  /\ loc[h].wrote = "all"
                  /\ loc[h].appended = 1

(***************************************************************************)
(* The whole server: the handlers of every event, each on its own thread,  *)
(* the status endpoint, the background updater and the clock.              *)
(***************************************************************************)
AudioSamples == {[audio |-> <<16, 16, PAD, PAD>>], [audio |-> <<16>>]}
PhotoSamples == {[image |-> <<BANG, COMMA, 16, 61, PAD, PAD>>], [image |-> <<16>>]}

Receive(h) ==
    \/ \E data \in GpsDataSmall : GpsReceive(h, data)
    \/ \E data \in AudioSamples : AudioReceive(h, data)
    \/ \E data \in PhotoSamples : PhotoReceive(h, data)
    \/ RequestReceive(h)
    \/ StatusReceive(h)
    \/ ConnectReceive(h)

Handle(h) ==
    \/ Acquire(h)
    \/ GpsAppend(h)
    \/ \E outcome \in WriteOutcomes : AudioWrite(h, outcome)
    \/ AudioAppend(h)
    \/ \E outcome \in WriteOutcomes : PhotoWrite(h, outcome)
    \/ PhotoAppend(h)
    \/ RequestEmit(h)
    \/ StatusReply(h)
    \/ ConnectReadState(h)
    \/ ConnectEmit(h)

Cycle ==
    \/ UAcquire
    \/ USnapshot
    \/ \E outcome \in BackendOutcomes : UGenerate(outcome)
    \/ UWrite
    \/ \E outcome \in IoOutcomes : ULog(outcome)
    \/ \E outcome \in IoOutcomes : UBroadcast(outcome)

Next ==
    \/ \E h \in Handlers : nevents < MaxEvents /\ Receive(h)
    \/ \E h \in Handlers : Handle(h)
    \/ uloc.cycles < MaxCycles /\ UWake
    \/ Cycle
    \/ Elapsed < MaxClock /\ Tick

Spec == Init /\ [][Next]_vars

(***************************************************************************)
(* The periodic summarizer alone.  A run starts from the server as it is   *)
(* after some gps_update events that did not overlap (one per clock tick   *)
(* before time 0, with or without coordinates) and after `pre` cycles that *)
(* all succeeded before those events came (one every 180 seconds, the last *)
(* at time 0), so that a few further cycles reach the limit of 10 history  *)
(* entries and meet fixes without coordinates.                             *)
(***************************************************************************)
HistoryPreloads == {0, MAX_CONTEXT_HISTORY}

PreText == "You are at home."
PreTime(i, pre) == (i - pre) * SLEEP_SECONDS * TicksPerSecond

PreHistory(pre) ==
    [i \in 1..pre |->
        [timestamp |-> PreTime(i, pre),
         prompt |-> TruncatedPrompt(<<>>),
         response |-> PreText]]

GpsHistories ==
    UNION {{[i \in 1..k |-> GpsEntry(d[i], i - k - 1)] : d \in [1..k -> GpsDataSmall]}
             : k \in 0..MaxFixes}

\* the updater's locals, the log and the broadcasts after `pre` such cycles
PreULoc(pre) ==
    [ULocInit EXCEPT
       !.new_state = IF pre = 0 THEN "" ELSE PreText,
       !.pre_state = IF pre <= 1 THEN INITIAL_STATE ELSE PreText,
       !.wrote = pre > 0, !.logged = pre > 0, !.sent = pre > 0,
       !.answered = [i \in 1..pre |->
                       [timestamp |-> PreTime(i, pre), response |-> PreText]],
       !.held = <<[state |-> INITIAL_STATE, timestamp |-> PreTime(0, pre)]>>
                \o [i \in 1..pre |->
                      [state |-> PreText, timestamp |-> PreTime(i, pre)]]]

PreLog(pre) ==
    [i \in 1..pre |->
        [timestamp |-> PreTime(i, pre), state |-> PreText,
         gps_count |-> 0, photo_count |-> 0, audio_chunks |-> 0]]

PreBroadcasts(pre) ==
    [i \in 1..pre |-> [state |-> PreText, timestamp |-> PreTime(i, pre)]]

InitSumm ==
    \E pre \in HistoryPreloads, fixes \in GpsHistories :
        /\ gps_data = fixes
        /\ received = fixes
        /\ audio_chunks = <<>>
        /\ photos = <<>>
        /\ current_state = IF pre = 0 THEN INITIAL_STATE ELSE PreText
        /\ last_update = 0
        /\ session_lock = FREE
        /\ pc = [h \in Handlers |-> "idle"]
        /\ loc = [h \in Handlers |-> Fresh("none")]
        /\ upc = "sleep"
        /\ uloc = PreULoc(pre)
        /\ context_history = PreHistory(pre)
        /\ now = 0
        /\ files = <<>>
        /\ log_lines = PreLog(pre)
        /\ broadcasts = PreBroadcasts(pre)
        /\ nevents = Len(fixes)

NextSumm ==
    \/ uloc.cycles < MaxCalls /\ UWake
    \/ Cycle

SpecSumm == InitSumm /\ [][NextSumm]_vars

ErrorTexts == {ErrorText(e) : e \in {"format", "error", "empty"}}

(***************************************************************************)
(* C2 as claimed.  A cycle whose model call failed leaves current_state    *)
(* and last_update as they were when the cycle started, broadcasts no      *)
(* state_update and writes no log line.                                    *)
(***************************************************************************)
C2_FailedCycleChangesNothing ==
    uloc.failed =>
        /\ current_state = uloc.pre_state
        /\ last_update = uloc.pre_update
        /\ ~uloc.sent
        /\ ~uloc.logged

(***************************************************************************)
(* C6.  generate_state never raises into the updater: whatever the         *)
(* snapshot and whatever the backend does, the cycle goes on with a text,  *)
(* which is the model's answer when the call succeeded and an error        *)
(* description when it failed.                                             *)
(***************************************************************************)
C6_GenerateStateReturnsText ==
    /\ ~uloc.raised
    /\ upc \in {"write_lock", "write_cs", "log", "emit"} =>
          IF uloc.failed THEN uloc.new_state \in ErrorTexts
                         ELSE uloc.new_state \in ModelTexts

\* the backend raised, and generate_state returned the error description
C6_Witness ==
    /\ upc = "write_lock"
    /\ uloc.failed
    /\ uloc.new_state = ErrorText("error")
    /\ Len(uloc.data_snapshot.gps_data) > 0

(***************************************************************************)
(* C7.  The context history holds at most 10 entries: those of the last    *)
(* min(k, 10) of the k successful calls so far, in call order.  A failed   *)
(* call is no successful call, so it leaves the history as it was.         *)
(***************************************************************************)
C7_HistoryKeepsLast10 ==
    /\ Len(context_history) <= MAX_CONTEXT_HISTORY
    /\ [i \in 1..Len(context_history) |->
          [timestamp |-> context_history[i].timestamp,
           response |-> context_history[i].response]]
       = LastN(uloc.answered, MAX_CONTEXT_HISTORY)

\* the oldest entry was evicted by the eleventh success, and a failed call
\* after it left the ten entries in place
C7_Witness ==
    /\ Len(uloc.answered) > MAX_CONTEXT_HISTORY
    /\ Len(context_history) = MAX_CONTEXT_HISTORY
    /\ context_history[1].timestamp # uloc.answered[1].timestamp
    /\ upc = "write_lock"
    /\ uloc.failed

(***************************************************************************)
(* C8 as claimed.  Whoever is about to read or write a field of the        *)
(* session (a handler inside its critical section, the connect handler     *)
(* reading the state and the timestamp, the updater taking its snapshot,   *)
(* writing the new state or reading the timestamp it broadcasts) holds the *)
(* session lock.                                                           *)
(***************************************************************************)
AccessLabels == {"gps_cs", "audio_cs", "photo_cs", "request_cs", "status_cs",
                 "connect_state", "connect_time"}
UpdaterAccessLabels == {"snap_cs", "write_cs", "emit"}

C8_EveryAccessUnderLock ==
    /\ \A h \in Handlers : pc[h] \in AccessLabels => session_lock = h
    /\ upc \in UpdaterAccessLabels => session_lock = UPDATER

(***************************************************************************)
(* The server while the model call hangs: the updater wakes up, takes its  *)
(* snapshot and calls generate_state, which never returns; the handlers    *)
(* go on.  Every thread that can take a step eventually takes one; nothing *)
(* is assumed about the model call.                                        *)
(***************************************************************************)
NextHang ==
    \/ \E h \in Handlers : nevents < MaxHangEvents /\ Receive(h)
    \/ \E h \in Handlers : Handle(h)
    \/ UWake
    \/ UAcquire
    \/ USnapshot

SpecHang ==
    /\ Init
    /\ [][NextHang]_vars
    /\ \A h \in Handlers : WF_vars(Handle(h))
    /\ WF_vars(UAcquire)
    /\ WF_vars(USnapshot)

(***************************************************************************)
(* C9.  The updater does not hold the session lock while the model call    *)
(* is in progress, and while the call hangs every handler that has been    *)
(* given an event (gps_update, audio_chunk, photo_capture, request_state,  *)
(* status, connect) gets the lock it needs and returns.                    *)
(***************************************************************************)
C9_HangDoesNotBlockHandlers ==
    /\ [](upc = "call" => session_lock # UPDATER)
    /\ \A h \in Handlers :
          (upc = "call" /\ pc[h] # "idle") ~> (upc = "call" /\ pc[h] = "idle")

\* a fix received and appended while the model call was in progress
C9_Witness ==
    /\ upc = "call"
    /\ Len(gps_data) > Len(uloc.data_snapshot.gps_data)
    /\ \E h \in Handlers :
          Returned(h) /\ loc[h].kind = "gps" /\ loc[h].appended = 1

(***************************************************************************)
(* The periodic summarizer under the scheduling the code relies on: the    *)
(* sleep ends, the updater thread is run, and the model call returns.      *)
(***************************************************************************)
SpecLoop ==
    /\ InitSumm
    /\ [][NextSumm]_vars
    /\ WF_vars(uloc.cycles < MaxCalls /\ UWake)
    /\ WF_vars(Cycle)

(***************************************************************************)
(* C10.  The updater loop never ends: whatever fails in a cycle (the model *)
(* call, the log write, the broadcast), the updater is back in its sleep   *)
(* afterwards, and from the sleep it starts the next cycle (as long as the *)
(* model explores further cycles).                                         *)
(***************************************************************************)
C10_LoopSurvivesFailures ==
    /\ [](upc # LoopExits)
    /\ (upc # "sleep") ~> (upc = "sleep")
    /\ (upc = "sleep" /\ uloc.cycles < MaxCalls) ~> (upc = "snap_lock")

\* a second cycle has started after a cycle whose log write failed
C10_Witness ==
    /\ upc = "snap_lock"
    /\ uloc.cycles = 2
    /\ current_state \in ModelTexts
    /\ Len(context_history) = 1
    /\ log_lines = <<>>

(***************************************************************************)
(* The server in use: the handlers of every event and the background       *)
(* updater together.  A run starts from the fresh server, or from the      *)
(* server as it is after 99 gps_update events, an audio_chunk and a        *)
(* photo_capture that did not overlap (one per clock tick after time 0)    *)
(* and before the first cycle.  In these runs the disk and the sockets     *)
(* work and the payloads are in order (the bad payloads and the failing    *)
(* writes are explored in SpecDecode and SpecSumm), and the model either   *)
(* answers or raises.                                                      *)
(***************************************************************************)
MaxLiveEvents == 1      \* events received in one run of the server in use

LiveFix == [latitude |-> "37.7749", longitude |-> "37.7749"]
LiveBytes == <<65>>

LiveGps(pre) == [i \in 1..pre |-> GpsEntry(LiveFix, i)]

LiveAudio(t) ==
    AudioMeta([timestamp |-> t, filename |-> AudioFileName(t), bytes |-> LiveBytes])

LivePhoto(t) ==
    PhotoMeta([timestamp |-> t, filename |-> PhotoFileName(t), bytes |-> LiveBytes])

InitLive ==
    \E pre \in Preloads :
        /\ gps_data = LiveGps(pre)
        /\ received = LiveGps(pre)
        /\ audio_chunks = IF pre = 0 THEN <<>> ELSE <<LiveAudio(pre + 1)>>
        /\ photos = IF pre = 0 THEN <<>> ELSE <<LivePhoto(pre + 2)>>
        /\ files = IF pre = 0 THEN <<>>
                   ELSE Store(Store(<<>>, AudioFileName(pre + 1), LiveBytes),
                              PhotoFileName(pre + 2), LiveBytes)
        /\ now = IF pre = 0 THEN 0 ELSE pre + 3
        /\ current_state = INITIAL_STATE
        /\ last_update = 0
        /\ session_lock = FREE
        /\ pc = [h \in Handlers |-> "idle"]
        /\ loc = [h \in Handlers |-> Fresh("none")]
        /\ upc = "sleep"
        /\ uloc = ULocInit
        /\ context_history = <<>>
        /\ log_lines = <<>>
        /\ broadcasts = <<>>
        /\ nevents = 0

\* one event of each kind, its payload in order
LiveReceive(h) ==
    \/ GpsReceive(h, LiveFix)
    \/ AudioReceive(h, [audio |-> <<16, 16, PAD, PAD>>])
    \/ PhotoReceive(h, [image |-> <<BANG, COMMA, 16, 61, PAD, PAD>>])
    \/ RequestReceive(h)
    \/ StatusReceive(h)
    \/ ConnectReceive(h)

LiveHandle(h) ==
    \/ Acquire(h)
    \/ GpsAppend(h)
    \/ AudioWrite(h, "ok")
    \/ AudioAppend(h)
    \/ PhotoWrite(h, "ok")
    \/ PhotoAppend(h)
    \/ RequestEmit(h)
    \/ StatusReply(h)
    \/ ConnectReadState(h)
    \/ ConnectEmit(h)

LiveOutcomes == {[kind |-> "ok", text |-> "You are at home."],
                 [kind |-> "error", text |-> ""]}

LiveCycle ==
    \/ UAcquire
    \/ USnapshot
    \/ \E outcome \in LiveOutcomes : UGenerate(outcome)
    \/ UWrite
    \/ ULog("ok")
    \/ UBroadcast("ok")

\* handler threads are interchangeable: an event goes to the first idle one
FirstIdle(h) == \A g \in Handlers : g[2] < h[2] => pc[g] # "idle"

NextLive ==
    \/ /\ nevents < MaxLiveEvents
       /\ \E h \in Handlers : FirstIdle(h) /\ LiveReceive(h)
    \/ \E h \in Handlers : LiveHandle(h)
    \/ uloc.cycles < MaxCycles /\ UWake
    \/ LiveCycle

SpecLive == InitLive /\ [][NextLive]_vars

\* no cycle has overwritten current_state and last_update yet
NoWriteYet == uloc.cycles = 0 \/ (uloc.cycles = 1 /\ ~uloc.wrote)

\* no cycle has run to its end (back to the sleep) yet
NoCycleCompleted == uloc.cycles = 0 \/ (uloc.cycles = 1 /\ upc # "sleep")

InitialReply(m) == m.state = INITIAL_STATE /\ m.timestamp = 0

Replied(h, kind) == Returned(h) /\ loc[h].kind = kind /\ Len(loc[h].replies) = 1

\* a step of the thread h while it handles request_state or the status query
QueryStep(h) ==
    /\ <<pc[h], loc[h]>> # <<pc'[h], loc'[h]>>
    /\ loc'[h].kind \in {"request", "status"}

(***************************************************************************)
(* C11 as claimed.  A request_state answered while no periodic cycle has   *)
(* completed carries the initial state text and the initial timestamp.     *)
(***************************************************************************)
C11_InitialUntilCycleCompleted ==
    \A h \in Handlers :
        (Replied(h, "request") /\ NoCycleCompleted) => InitialReply(loc[h].replies[1])

(***************************************************************************)
(* C11.  No step of request_state or of the status query changes a field   *)
(* of the session, and a request_state answered while no periodic cycle    *)
(* has overwritten the state carries the initial state text and the        *)
(* initial timestamp, whatever gps_update, audio_chunk and photo_capture   *)
(* events were processed before it.                                        *)
(***************************************************************************)
C11_QueriesReadOnlyInitialReply ==
    /\ [][\A h \in Handlers : QueryStep(h) => UNCHANGED session]_vars
    /\ [](\A h \in Handlers :
            (Replied(h, "request") /\ NoWriteYet) =>
                InitialReply(loc[h].replies[1]))

\* request_state answered with the placeholder after 101 events, while the
\* first cycle waits for the model
C11_Witness ==
    /\ upc = "call"
    /\ Len(gps_data) >= MAX_GPS_POINTS - 1
    /\ audio_chunks # <<>> /\ photos # <<>>
    /\ \E h \in Handlers :
          Replied(h, "request") /\ InitialReply(loc[h].replies[1])

(***************************************************************************)
(* Rapid photo capture: a few photo_capture events, of two images of       *)
(* different sizes, while the clock runs over more than one second.        *)
(***************************************************************************)
MaxPhotoEvents == 2     \* photo_capture events received in one run
MaxPhotoClock == 3      \* last clock tick of a run of rapid captures

PhotoShots == {[image |-> <<16, 16, PAD, PAD>>], [image |-> <<16, 16, 16, 16>>]}

NextPhotos ==
    \/ /\ nevents < MaxPhotoEvents
       /\ \E h \in Handlers, data \in PhotoShots : PhotoReceive(h, data)
    \/ \E h \in Handlers, outcome \in WriteOutcomes : PhotoWrite(h, outcome)
    \/ \E h \in Handlers : Acquire(h)
    \/ \E h \in Handlers : PhotoAppend(h)
    \/ now < MaxPhotoClock /\ Tick

SpecPhotos == Init /\ [][NextPhotos]_vars

\* the index holds two entries taken in the same second
SameSecondCaptures ==
    \E i, j \in 1..Len(photos) :
        i < j /\ SecondOf(photos[i].timestamp) = SecondOf(photos[j].timestamp)

\* the file names of the index are pairwise distinct, and each names a file
\* of the entry's size
IndexNamesOwnFiles ==
    /\ \A i, j \in 1..Len(photos) : i < j => photos[i].filename # photos[j].filename
    /\ \A i \in 1..Len(photos) :
          /\ photos[i].filename \in DOMAIN files
          /\ Len(files[photos[i].filename]) = photos[i].size

(***************************************************************************)
(* C12.  Two photo_capture events that succeeded have different file names *)
(* exactly when their server timestamps fall in different seconds; so the  *)
(* file names of the index are pairwise distinct, each naming a file with  *)
(* its entry's bytes, only if no two captures fell in the same second.     *)
(***************************************************************************)
C12_PhotoNamesCollideWithinSecond ==
    /\ \A i, j \in 1..Len(photos) :
          i < j => ((photos[i].filename # photos[j].filename)
                      <=> (SecondOf(photos[i].timestamp) # SecondOf(photos[j].timestamp)))
    /\ IndexNamesOwnFiles => ~SameSecondCaptures

\* two captures in the same second on two threads: one file name twice in the
\* index, and the file does not hold the bytes of one of them (seen after the
\* clock has passed into the next second)
C12_Witness ==
    /\ SecondOf(now) > 0
    /\ Len(photos) = 2
    /\ photos[1].filename = photos[2].filename
    /\ photos[1].timestamp # photos[2].timestamp
    /\ \E h \in Handlers :
          /\ Returned(h) /\ loc[h].kind = "photo" /\ loc[h].appended = 1
          /\ files[loc[h].filename] # loc[h].bytes

(***************************************************************************)
(* One image sent twice: a client sends a base64 text bare, and then the   *)
(* same text behind a data-URL header, "<header>," in front of it.  The    *)
(* header is what stands before the first comma, so it holds no comma      *)
(* itself (as "data:image/jpeg;base64" does not).  The two events are      *)
(* handled on two threads, at any distance in time; the disk works.        *)
(***************************************************************************)
PlainHeaders == StringsUpTo({BANG}, MaxHeaderLen)

SentBare(g) == loc[g].kind = "photo" /\ loc[g].haskey

NextPrefix ==
    \/ /\ nevents = 0
       /\ \E g \in Handlers, d \in Bodies : PhotoReceive(g, [image |-> d])
    \/ /\ nevents = 1
       /\ \E g, h \in Handlers, hd \in PlainHeaders :
             /\ g # h
             /\ SentBare(g)
             /\ PhotoReceive(h, [image |-> hd \o <<COMMA>> \o loc[g].text])
    \/ \E h \in Handlers : PhotoWrite(h, "ok")
    \/ \E h \in Handlers : Acquire(h)
    \/ \E h \in Handlers : PhotoAppend(h)
    \/ now < MaxPhotoClock /\ Tick

SpecPrefix == Init /\ [][NextPrefix]_vars

\* both captures of the image have been handled to the end
BothReturned(g, h) ==
    /\ g # h
    /\ Returned(g) /\ loc[g].kind = "photo"
    /\ Returned(h) /\ loc[h].kind = "photo"
    /\ loc[g].text = loc[h].text

(***************************************************************************)
(* C13.  photo_capture of a base64 text behind a data-URL header does what *)
(* photo_capture of the bare text does: either both fail to decode, write  *)
(* nothing and record nothing, or both write the same bytes to their files *)
(* and record the same size in the index.                                  *)
(***************************************************************************)
C13_PrefixedDecodesAsBare ==
    \A g, h \in Handlers :
        BothReturned(g, h) =>
            /\ loc[g].caught = loc[h].caught
            /\ loc[g].bytes = loc[h].bytes
            /\ loc[g].wrote = loc[h].wrote
            /\ loc[g].caught => (files = <<>> /\ photos = <<>>)
            /\ ~loc[g].caught =>
                  /\ files[loc[g].filename] = files[loc[h].filename]
                  /\ files[loc[g].filename] = loc[g].bytes
                  /\ Len(photos) = 2
                  /\ photos[1].size = photos[2].size
                  /\ photos[1].size = Len(loc[g].bytes)

\* the image of three bytes, saved twice under two file names
C13_Witness ==
    \E g, h \in Handlers :
        /\ BothReturned(g, h)
        /\ Len(loc[g].bytes) = 3
        /\ loc[g].filename # loc[h].filename
        /\ Len(photos) = 2

\* the cycle has ended: the updater is back in its sleep
CycleEnded == upc = "sleep" /\ uloc.cycles > 0

(***************************************************************************)
(* C14 as claimed.  A cycle that has overwritten current_state and         *)
(* last_update has, when it ends, appended one log line and broadcast one  *)
(* state_update carrying the text and the timestamp it wrote; and a cycle  *)
(* that broadcast has overwritten the state.                               *)
(***************************************************************************)
C14_OverwriteLoggedAndBroadcast ==
    /\ (CycleEnded /\ uloc.wrote) =>
          /\ uloc.logged /\ uloc.sent
          /\ log_lines # <<>>
          /\ log_lines[Len(log_lines)].state = current_state
          /\ broadcasts # <<>>
          /\ broadcasts[Len(broadcasts)] =
                [state |-> current_state, timestamp |-> last_update]
    /\ uloc.sent => uloc.wrote

\* generate_state has returned to the cycle
AfterCall == upc \in {"write_lock", "write_cs", "log", "emit"}

(***************************************************************************)
(* C16 as claimed.  Whatever snapshot the accepted events have left,       *)
(* generate_state calls the model exactly once, and returns the model's    *)
(* text when the model answers.                                            *)
(***************************************************************************)
C16_ModelCalledOnceTextVerbatim ==
    AfterCall =>
        /\ uloc.calls = 1
        /\ uloc.outcome.kind = "ok" => uloc.new_state = uloc.outcome.text

\* the (state, timestamp) pair a message carries
PairOf(m) == [state |-> m.state, timestamp |-> m.timestamp]

(***************************************************************************)
(* C15 as claimed.  Every (state, timestamp) pair sent to a client, in the *)
(* connected message, in a request_state reply, in a status response or in *)
(* a periodic broadcast, is a pair (current_state, last_update) that the   *)
(* session held at one instant.                                            *)
(***************************************************************************)
C15_SentPairWasHeld ==
    /\ \A h \in Handlers :
          \A i \in 1..Len(loc[h].replies) :
              loc[h].kind \in {"connect", "request", "status"} =>
                  PairOf(loc[h].replies[i]) \in Range(uloc.held)
    /\ \A i \in 1..Len(broadcasts) : PairOf(broadcasts[i]) \in Range(uloc.held)

(***************************************************************************)
(* The events that are never answered: gps_update with every subset of the *)
(* six fields, and audio_chunk with a good text, a bad text and no text,   *)
(* the audio file written or not.                                          *)
(***************************************************************************)
MaxQuietEvents == 1     \* events received in one run of the unanswered events

GpsPayloads == UNION {[D -> GpsCoords] : D \in SUBSET GpsFields}

NextQuiet ==
    \/ /\ nevents < MaxQuietEvents
       /\ \E h \in Handlers, data \in GpsPayloads : GpsReceive(h, data)
    \/ /\ nevents < MaxQuietEvents
       /\ \E h \in Handlers, data \in AudioSamples \cup {NoKey} : AudioReceive(h, data)
    \/ \E h \in Handlers : Acquire(h)
    \/ \E h \in Handlers : GpsAppend(h)
    \/ \E h \in Handlers, outcome \in WriteOutcomes : AudioWrite(h, outcome)
    \/ \E h \in Handlers : AudioAppend(h)

SpecQuiet == Init /\ [][NextQuiet]_vars

\* the fix of the event of h keeps the fields the payload carried and has
\* None for each of the others
StoredAsSent(h) ==
    \A f \in GpsFields :
        loc[h].entry[f] = IF f \in loc[h].keys THEN "37.7749" ELSE None

\* the step in which the handler h of a gps_update returns
GpsReturns(h) == pc[h] = "gps_cs" /\ pc'[h] = "idle"

(***************************************************************************)
(* C17.  A gps_update with any subset of the six fields appends exactly    *)
(* one fix, with None for each missing field, and its handler returns      *)
(* (also when the print after the append raises on a None coordinate);     *)
(* neither it nor any audio_chunk event sends a message to any client.     *)
(***************************************************************************)
C17_GpsAppendsOneFixSilently ==
    /\ [](\A h \in Handlers :
            /\ loc[h].kind \in {"gps", "audio"} => loc[h].replies = <<>>
            /\ loc[h].kind = "gps" => StoredAsSent(h)
            /\ (Returned(h) /\ loc[h].kind = "gps") =>
                  /\ loc[h].appended = 1
                  /\ loc[h].entry \in Range(gps_data))
    /\ [](broadcasts = <<>>)
    /\ [][/\ \A h \in Handlers :
                GpsReturns(h) => gps_data' = Append(gps_data, loc[h].entry)
          /\ gps_data' # gps_data => \E h \in Handlers : GpsReturns(h)]_vars

\* a gps_update with an altitude and no latitude: the fix is stored with
\* None, the print raised and was caught, nothing was sent
C17_Witness ==
    \E h \in Handlers :
        /\ Returned(h) /\ loc[h].kind = "gps"
        /\ loc[h].keys = {"altitude"}
        /\ loc[h].caught
        /\ gps_data = <<loc[h].entry>>
        /\ loc[h].entry.latitude = None
        /\ loc[h].replies = <<>>

(***************************************************************************)
(* The prompt builder over sessions of every shape.  A run starts from the *)
(* server as it is after gps_update, photo_capture and audio_chunk events  *)
(* that did not overlap (up to the bounds, the fixes with coordinates or,  *)
(* for the short histories, also without), with the context history empty *)
(* or full, and runs periodic cycles.                                      *)
(***************************************************************************)
MaxTrail == 6           \* fixes with coordinates held when a run starts
MaxShots == 4           \* photos held when a run starts
MaxChunks == 1          \* audio chunks held when a run starts

\* one photo a second, one audio chunk a tick, before time 0
ShotsHeld(m) == [i \in 1..m |-> LivePhoto((i - m - 1) * TicksPerSecond)]
ChunksHeld(a) == [i \in 1..a |-> LiveAudio(i - a - 1)]

FilesHeld(m, a) ==
    IF m + a = 0 THEN <<>>
    ELSE [n \in {ShotsHeld(m)[i].filename : i \in 1..m}
                   \cup {ChunksHeld(a)[i].filename : i \in 1..a} |-> LiveBytes]
FixesHeld == {[i \in 1..k |-> GpsEntry(LiveFix, i - k - 1)] : k \in 0..MaxTrail}
                \cup GpsHistories

InitPrompt ==
    \E pre \in HistoryPreloads, fixes \in FixesHeld,
       m \in 0..MaxShots, a \in 0..MaxChunks :
        /\ gps_data = fixes
        /\ received = fixes
        /\ audio_chunks = ChunksHeld(a)
        /\ photos = ShotsHeld(m)
        /\ current_state = IF pre = 0 THEN INITIAL_STATE ELSE PreText
        /\ last_update = 0
        /\ session_lock = FREE
        /\ pc = [h \in Handlers |-> "idle"]
        /\ loc = [h \in Handlers |-> Fresh("none")]
        /\ upc = "sleep"
        /\ uloc = PreULoc(pre)
        /\ context_history = PreHistory(pre)
        /\ now = 0
        /\ files = FilesHeld(m, a)
        /\ log_lines = PreLog(pre)
        /\ broadcasts = PreBroadcasts(pre)
        /\ nevents = 0

SpecPrompt == InitPrompt /\ [][NextSumm]_vars

\* the parts of a prompt whose first element is the given text
PartsNamed(parts, name) == SelectSeq(parts, LAMBDA p : p[1] = name)

HasSection(parts, header) == PartsNamed(parts, header) # <<>>

\* what the claim says of the prompt built from a snapshot and a history
SectionsAsClaimed(parts, data, history) ==
    /\ HasSection(parts, "--- CURRENT LOCATION ---") <=> data.gps_data # <<>>
    /\ HasSection(parts, "--- PHOTOS CAPTURED ---") <=> data.photos # <<>>
    /\ HasSection(parts, "--- AUDIO DATA ---") <=> data.audio_chunks > 0
    /\ HasSection(parts, "--- RECENT HISTORY ---") <=> history # <<>>
    /\ HasSection(parts, "Recent locations") <=> Len(data.gps_data) >= 2
    /\ PartsNamed(parts, "trail") =
          IF Len(data.gps_data) >= 2
          THEN [i \in 1..Len(LastN(data.gps_data, 5)) |->
                   <<"trail", LastN(data.gps_data, 5)[i].latitude,
                     LastN(data.gps_data, 5)[i].longitude,
                     LastN(data.gps_data, 5)[i].timestamp>>]
          ELSE <<>>
    /\ PartsNamed(parts, "photo") =
          [i \in 1..Len(LastN(data.photos, 3)) |->
              <<"photo", LastN(data.photos, 3)[i].filename,
                LastN(data.photos, 3)[i].timestamp>>]

(***************************************************************************)
(* C18.  Whenever generate_state builds a prompt, the prompt holds the     *)
(* location section iff the snapshot has a fix, the photos section iff it  *)
(* has a photo, the audio section iff its audio count is above zero and    *)
(* the previous-state section iff the context history is not empty; the    *)
(* trail is there iff there are two fixes or more and lists the last       *)
(* min(n, 5) of them, and the photos section lists the last min(m, 3)      *)
(* photos.                                                                 *)
(***************************************************************************)
C18_PromptSectionsFollowSnapshot ==
    [][(upc = "call" /\ upc' # "call" /\ uloc'.prompt # <<>>) =>
          SectionsAsClaimed(uloc'.prompt, uloc.data_snapshot, context_history)]_vars

\* a prompt built from six fixes, four photos, no audio and a full history:
\* five trail lines, three photo lines, no audio section
C18_Witness ==
    /\ AfterCall
    /\ Len(uloc.data_snapshot.gps_data) = 6
    /\ Len(uloc.data_snapshot.photos) = 4
    /\ uloc.data_snapshot.audio_chunks = 0
    /\ Len(PartsNamed(uloc.prompt, "trail")) = 5
    /\ Len(PartsNamed(uloc.prompt, "photo")) = 3
    /\ ~HasSection(uloc.prompt, "--- AUDIO DATA ---")
    /\ HasSection(uloc.prompt, "--- RECENT HISTORY ---")

\* the thread h, handling an event of the given kind, takes a step
StepOf(h, kind) == pc'[h] # pc[h] /\ loc[h].kind = kind

\* s2 is s1 with one entry appended at the end
Extends(s2, s1) == Len(s2) = Len(s1) + 1 /\ SubSeq(s2, 1, Len(s1)) = s1

\* s2 is s1 with one entry appended at the end, the oldest perhaps evicted
Slides(s2, s1) ==
    /\ s2 # <<>>
    /\ \E k \in {0, 1} :
          SubSeq(s2, 1, Len(s2) - 1) = SubSeq(s1, 1 + k, Len(s1))

(***************************************************************************)
(* C19.  gps_data changes only in a step of a gps_update handler, by an    *)
(* append at the end (with the oldest fix evicted at most); audio_chunks   *)
(* only in a step of an audio_chunk handler and photos only in a step of   *)
(* a photo_capture handler, by an append at the end; current_state and     *)
(* last_update only in the updater's write; and no step of the updater     *)
(* changes a collection, so what was received during the model call is     *)
(* there when the cycle ends.                                              *)
(***************************************************************************)
C19_EachOperationOwnsItsPart ==
    [][/\ gps_data' # gps_data =>
             /\ \E h \in Handlers : StepOf(h, "gps")
             /\ Slides(gps_data', gps_data)
       /\ audio_chunks' # audio_chunks =>
             /\ \E h \in Handlers : StepOf(h, "audio")
             /\ Extends(audio_chunks', audio_chunks)
       /\ photos' # photos =>
             /\ \E h \in Handlers : StepOf(h, "photo")
             /\ Extends(photos', photos)
       /\ <<current_state, last_update>>' # <<current_state, last_update>> =>
             /\ upc = "write_cs" /\ upc' = "log"
             /\ pc' = pc
       /\ upc' # upc => UNCHANGED <<gps_data, audio_chunks, photos>>]_vars

\* a cycle has ended that overwrote the state, and the fix that arrived after
\* its snapshot, evicting the oldest of 100, is the last of the history
C19_Witness ==
    /\ CycleEnded /\ uloc.wrote
    /\ Len(uloc.data_snapshot.gps_data) = MAX_GPS_POINTS - 1
    /\ Len(gps_data) = MAX_GPS_POINTS
    /\ \E h \in Handlers :
          /\ Returned(h) /\ loc[h].kind = "gps"
          /\ gps_data[Len(gps_data)] = loc[h].entry
          /\ loc[h].entry \notin Range(uloc.data_snapshot.gps_data)

=============================================================================
